---- MODULE Spec2Model ----
(***************************************************************************)
(* Model of telethon/events/common.py: the chat filter of EventBuilder     *)
(* (_into_id_set, resolve, _filter_event) and the lazily resolved chat     *)
(* properties of EventCommon (input_chat, chat, chat_id).                  *)
(*                                                                         *)
(* Python's None is "None" for the string-valued fields, NoPeer for a peer *)
(* and <<>> for an optional integer (Some(n) is <<n>>).  Every `await` on  *)
(* the client is a suspension point: a property access is one action up to *)
(* its first await and one action per answer of the client after it.       *)
(***************************************************************************)
EXTENDS Integers, Sequences, FiniteSets, TLC

\* ------------------------------------------------------------------ bounds
\* Raw (unmarked) ids of users, basic groups and channels: 0..MaxRawId.
MaxRawId == 1
\* Longest sequence of dialogs one iter_dialogs() call yields.
MaxDialogs == 2
\* Longest list of chat references a builder is constructed with.
MaxRefs == 2

RawIds == 0..MaxRawId
Span == MaxRawId + 1

\* --------------------------------------------------------------- optionals
None == <<>>
Some(n) == <<n>>

\* ------------------------------------------------------------------- peers
PeerKinds == {"PeerUser", "PeerChat", "PeerChannel"}
Peers == [kind : PeerKinds, id : RawIds]
NoPeer == [kind |-> "None", id |-> 0]

\* utils.get_peer_id on a typed peer: one canonical ID per (kind, raw id).
\* A user keeps its raw id; a basic group and a channel get a negative,
\* marked ID, each kind in its own range.
PeerMark(kind) == CASE kind = "PeerUser" -> 0
                    [] kind = "PeerChat" -> 1
                    [] kind = "PeerChannel" -> 2

get_peer_id(peer) ==
    IF peer.kind = "PeerUser" THEN peer.id
    ELSE 0 - (PeerMark(peer.kind) * Span + peer.id)

\* utils.resolve_id: the (kind, raw id) pair a canonical ID stands for.
resolve_id(i) ==
    IF i >= 0 THEN [kind |-> "PeerUser", id |-> i]
    ELSE LET m == (0 - i) \div Span
         IN  [kind |-> IF m = 1 THEN "PeerChat" ELSE "PeerChannel",
              id |-> (0 - i) % Span]

\* utils.get_peer_id(None): the argument is no peer.  What the helper does
\* with it is not fixed by the sources at hand, so both outcomes are kept:
\* it raises TypeError, or it yields an ID that matches nothing.
NonePeerOutcomes == {"TypeError", "miss"}

\* ----------------------------------------------------- the external client
InputPeers == {"IP1", "IP2"}
Entities == {"E1", "E2"}
\* The entity the dispatcher may have put in the event's _entities table.
TableEntity == "E3"
MsgIds == {0, 1}

\* A message as get_messages returns it: its _chat and _input_chat.
Messages == [_chat : Entities \cup {"None"}, _input_chat : InputPeers \cup {"None"}]

\* A dialog as iter_dialogs yields it: the ID of the scanned chat or another
\* ID, with an entity and the input peer of that entity.
OtherId(target) == IF target = 0 THEN 1 ELSE 0
DialogsFor(target) ==
    {[id |-> i, entity |-> e[1], input_entity |-> e[2]] :
        i \in {target, OtherId(target)}, e \in {<<"E1", "IP1">>, <<"E2", "IP2">>}}
DialogSeqs(target) ==
    UNION {[1..n -> DialogsFor(target)] : n \in 0..MaxDialogs}

\* The log of one property access: the calls it makes (on the client, and
\* the lookup in the _entities table) and the client's answers, in order.
\* A call names the method in fn and holds its argument (peer for
\* get_input_entity and _entities.get, ids for get_messages, ic for
\* get_entity); an answer names in fn what came back (the error raised, or
\* "input_peer", "message", "entity") and holds the value in ic and chat.
Call(fn, peer, ids, ic) ==
    [fn |-> fn, peer |-> peer, ids |-> ids, ic |-> ic, chat |-> "None"]
Answer(fn, ic, chat) ==
    [fn |-> fn, peer |-> NoPeer, ids |-> None, ic |-> ic, chat |-> chat]
ClientMethods == {"get_input_entity", "get_messages", "iter_dialogs", "get_entity"}

\* ----------------------------------------------------------------- contexts
\* Execution contexts (tasks) that may access the properties of the event.
Main == "main"
Ctx == {"main", "other"}

VARIABLES
    \* EventCommon
    _chat_peer, _message_id, _entities, _input_chat, _chat,
    is_private, is_group, is_channel,
    \* history: the broadcast argument __init__ was called with
    broadcast,
    \* one property access per context: where it is suspended, the steps it
    \* has taken on the client and on the entity table, its outcome, and the
    \* fields as they were when it began
    pc, log, ret, pre, dialogs, pos,
    \* history: the first non-absent value input_chat / chat ever returned
    icSeen, chatSeen,
    \* EventBuilder
    chats, blacklist_chats, _self_id,
    \* history of the builder: the chats it was constructed with, whether
    \* resolve has stored a resolved set, the outcome of the last operation,
    \* and where resolve is suspended
    chats0, chatsResolved, bret, bpc

eventVars == <<_chat_peer, _message_id, _entities, _input_chat, _chat,
               is_private, is_group, is_channel, broadcast>>
accessVars == <<pc, log, ret, pre, dialogs, pos, icSeen, chatSeen>>
builderVars == <<chats, blacklist_chats, _self_id, chats0, chatsResolved, bret, bpc>>
vars == <<eventVars, accessVars, builderVars>>

\* ------------------------------------------------------------- EventCommon
\* self._entities.get(key)
entities_get(table, key) == IF key \in DOMAIN table THEN table[key] ELSE "None"

\* The _entities table: empty as __init__ leaves it, or holding the one
\* entity the dispatcher stored under an ID before handing the event out.
EntityTables(peer) ==
    LET own == IF peer = NoPeer THEN 0 ELSE get_peer_id(peer)
    IN  {<<>>} \cup {(k :> TableEntity) : k \in {own, OtherId(own)}}

NoRet == [op |-> "none", out |-> "none", val |-> "None", id |-> None, err |-> "none"]
Returned(op, val) ==
    [op |-> op, out |-> "return", val |-> val, id |-> None, err |-> "none"]
ReturnedId(op, id) ==
    [op |-> op, out |-> "return", val |-> "None", id |-> id, err |-> "none"]
Raised(op, err) ==
    [op |-> op, out |-> "raise", val |-> "None", id |-> None, err |-> err]

\* isinstance(chat_peer, kinds); the absent peer is of no kind
isinstance(peer, kinds) == peer # NoPeer /\ peer.kind \in kinds

\* (mutant) is_group without the `and not broadcast` of line 124
group_flag_any_broadcast(peer, bc) == isinstance(peer, {"PeerChat", "PeerChannel"})

\* is_group as __init__ computes it (lines 122-125)
group_flag(peer, bc) == isinstance(peer, {"PeerChat", "PeerChannel"}) /\ ~bc

\* __init__(chat_peer, msg_id, broadcast), then _set_client by the dispatcher
InitEvent ==
    /\ _chat_peer \in Peers \cup {NoPeer}
    /\ _message_id \in {None} \cup {Some(m) : m \in MsgIds}
    /\ _entities \in EntityTables(_chat_peer)
    /\ _input_chat = "None"
    /\ _chat = "None"
    /\ broadcast \in BOOLEAN
    /\ is_private = isinstance(_chat_peer, {"PeerUser"})
    /\ is_group = group_flag(_chat_peer, broadcast)
    /\ is_channel = isinstance(_chat_peer, {"PeerChannel"})
    /\ pc = [c \in Ctx |-> "idle"]
    /\ log = [c \in Ctx |-> <<>>]
    /\ ret = [c \in Ctx |-> NoRet]
    /\ pre = [c \in Ctx |-> [ic |-> "None", chat |-> "None",
                              icSeen |-> "None", chatSeen |-> "None"]]
    /\ dialogs = [c \in Ctx |-> <<>>]
    /\ pos = [c \in Ctx |-> 0]
    /\ icSeen = "None"
    /\ chatSeen = "None"

Snapshot == [ic |-> _input_chat, chat |-> _chat,
             icSeen |-> icSeen, chatSeen |-> chatSeen]

\* An access of context c ends: its outcome is recorded and c is idle again.
Finish(c, r) ==
    /\ ret' = [ret EXCEPT ![c] = r]
    /\ pc' = [pc EXCEPT ![c] = "idle"]

\* `return self._input_chat` (line 167): the field as it is at that moment.
ReturnInputChat(c, value) ==
    /\ Finish(c, Returned("input_chat", value))
    /\ icSeen' = IF icSeen = "None" THEN value ELSE icSeen

Logged(c, entry) == log' = [log EXCEPT ![c] = Append(log[c], entry)]

\* (mutant) the cache is not consulted
needs_resolution_uncached(ic, peer) == peer # NoPeer

\* line 144: the resolution runs only for an unset cache and a given peer
needs_resolution(ic, peer) == ic = "None" /\ peer # NoPeer

\* (mutant) `except Exception`
is_not_found_any(err) == TRUE

\* line 149: the only exception the resolution recovers from
is_not_found(err) == err = "ValueError"

\* (mutant) `if not ch and self._message_id`: message ID 0 counts as unset
fallback_truthy_id(peer, msg_id) ==
    LET ch == peer.kind = "PeerChannel"
    IN  IF ~ch /\ msg_id # None /\ msg_id # Some(0)
        THEN "get_messages" ELSE "iter_dialogs"

\* (mutant) the channel test is dropped
fallback_any_kind(peer, msg_id) ==
    IF msg_id # None THEN "get_messages" ELSE "iter_dialogs"

\* lines 150-156: the fallback taken after the not-found error
fallback(peer, msg_id) ==
    LET ch == peer.kind = "PeerChannel"
    IN  IF ~ch /\ msg_id # None THEN "get_messages" ELSE "iter_dialogs"

\* lines 159-161: one dialog of the scan; cur is the <<_chat, _input_chat>> pair
\* (mutant) a matching dialog supplies the input chat only (line 160 missing)
scan_dialog_input_only(d, target, cur) ==
    IF d.id = target THEN <<cur[1], d.input_entity>> ELSE cur

scan_dialog(d, target, cur) ==
    IF d.id = target THEN <<d.entity, d.input_entity>> ELSE cur

\* Errors a call on the client may raise: not found, or anything else.
ClientErrors == {"ValueError", "RPCError", "ConnectionError"}

\* (mutant) absence is remembered: after an access of c that returned
\* absent, the next one returns absent without asking the client
InputChatBegin_memo(c) ==
    /\ pc[c] = "idle"
    /\ pre' = [pre EXCEPT ![c] = Snapshot]
    /\ IF /\ needs_resolution(_input_chat, _chat_peer)
          /\ ret[c] # Returned("input_chat", "None")
       THEN /\ pc' = [pc EXCEPT ![c] = "get_input_entity"]
            /\ log' = [log EXCEPT ![c] =
                          <<Call("get_input_entity", _chat_peer, None, "None")>>]
            /\ UNCHANGED <<ret, icSeen>>
       ELSE /\ log' = [log EXCEPT ![c] = <<>>]
            /\ ReturnInputChat(c, _input_chat)
    /\ dialogs' = [dialogs EXCEPT ![c] = <<>>]
    /\ pos' = [pos EXCEPT ![c] = 0]
    /\ UNCHANGED <<eventVars, chatSeen, builderVars>>

\* (mutant) a lock around the resolution: input_chat waits while another
\* context is inside the property
InputChatBegin_locked(c) ==
    /\ pc[c] = "idle"
    /\ \A d \in Ctx \ {c} : pc[d] = "idle"
    /\ pre' = [pre EXCEPT ![c] = Snapshot]
    /\ IF needs_resolution(_input_chat, _chat_peer)
       THEN /\ pc' = [pc EXCEPT ![c] = "get_input_entity"]
            /\ log' = [log EXCEPT ![c] =
                          <<Call("get_input_entity", _chat_peer, None, "None")>>]
            /\ UNCHANGED <<ret, icSeen>>
       ELSE /\ log' = [log EXCEPT ![c] = <<>>]
            /\ ReturnInputChat(c, _input_chat)
    /\ dialogs' = [dialogs EXCEPT ![c] = <<>>]
    /\ pos' = [pos EXCEPT ![c] = 0]
    /\ UNCHANGED <<eventVars, chatSeen, builderVars>>

\* input_chat, up to its first await (lines 144-147)
InputChatBegin(c) ==
    /\ pc[c] = "idle"
    /\ pre' = [pre EXCEPT ![c] = Snapshot]
    /\ IF needs_resolution(_input_chat, _chat_peer)
       THEN /\ pc' = [pc EXCEPT ![c] = "get_input_entity"]
            /\ log' = [log EXCEPT ![c] =
                          <<Call("get_input_entity", _chat_peer, None, "None")>>]
            /\ UNCHANGED <<ret, icSeen>>
       ELSE /\ log' = [log EXCEPT ![c] = <<>>]
            /\ ReturnInputChat(c, _input_chat)
    /\ dialogs' = [dialogs EXCEPT ![c] = <<>>]
    /\ pos' = [pos EXCEPT ![c] = 0]
    /\ UNCHANGED <<eventVars, chatSeen, builderVars>>

\* get_input_entity answers with an input peer (line 146), returned at 167
InputChatDirect(c) ==
    /\ pc[c] = "get_input_entity"
    /\ \E ip \in InputPeers :
          /\ _input_chat' = ip
          /\ Logged(c, Answer("input_peer", ip, "None"))
          /\ ReturnInputChat(c, ip)
    /\ UNCHANGED <<_chat_peer, _message_id, _entities, _chat,
                   is_private, is_group, is_channel, broadcast,
                   pre, dialogs, pos, chatSeen, builderVars>>

\* get_input_entity raises (lines 149-158): not found starts a fallback,
\* any other error leaves the property
InputChatDirectFails(c) ==
    /\ pc[c] = "get_input_entity"
    /\ \E err \in ClientErrors :
          IF ~is_not_found(err)
          THEN /\ Finish(c, Raised("input_chat", err))
               /\ Logged(c, Answer(err, "None", "None"))
               /\ UNCHANGED dialogs
          ELSE IF fallback(_chat_peer, _message_id) = "get_messages"
          THEN /\ pc' = [pc EXCEPT ![c] = "get_messages"]
               /\ log' = [log EXCEPT ![c] = log[c] \o
                            <<Answer(err, "None", "None"),
                              Call("get_messages", NoPeer, _message_id, "None")>>]
               /\ UNCHANGED <<ret, dialogs>>
          ELSE /\ pc' = [pc EXCEPT ![c] = "iter_dialogs"]
               /\ log' = [log EXCEPT ![c] = log[c] \o
                            <<Answer(err, "None", "None"),
                              Call("iter_dialogs", NoPeer, None, "None")>>]
               /\ dialogs' \in {[dialogs EXCEPT ![c] = ds] :
                                   ds \in DialogSeqs(get_peer_id(_chat_peer))}
               /\ UNCHANGED ret
    /\ UNCHANGED <<eventVars, pre, pos, icSeen, chatSeen, builderVars>>

\* get_messages answers with the message (lines 152-155), returned at 167
InputChatMessage(c) ==
    /\ pc[c] = "get_messages"
    /\ \E msg \in Messages :
          /\ _chat' = msg._chat
          /\ _input_chat' = msg._input_chat
          /\ Logged(c, Answer("message", msg._input_chat, msg._chat))
          /\ ReturnInputChat(c, msg._input_chat)
    /\ UNCHANGED <<_chat_peer, _message_id, _entities,
                   is_private, is_group, is_channel, broadcast,
                   pre, dialogs, pos, chatSeen, builderVars>>

\* get_messages or iter_dialogs raises: nothing catches it
InputChatFallbackFails(c) ==
    /\ pc[c] \in {"get_messages", "iter_dialogs"}
    /\ \E err \in ClientErrors :
          /\ Logged(c, Answer(err, "None", "None"))
          /\ Finish(c, Raised("input_chat", err))
    /\ UNCHANGED <<eventVars, pre, dialogs, pos, icSeen, chatSeen, builderVars>>

\* the scan takes the next dialog (lines 158-161)
InputChatDialog(c) ==
    /\ pc[c] = "iter_dialogs"
    /\ pos[c] < Len(dialogs[c])
    /\ LET d == dialogs[c][pos[c] + 1]
           now == scan_dialog(d, get_peer_id(_chat_peer), <<_chat, _input_chat>>)
       IN  /\ _chat' = now[1]
           /\ _input_chat' = now[2]
    /\ pos' = [pos EXCEPT ![c] = pos[c] + 1]
    /\ UNCHANGED <<_chat_peer, _message_id, _entities,
                   is_private, is_group, is_channel, broadcast,
                   pc, log, ret, pre, dialogs, icSeen, chatSeen, builderVars>>

\* (mutant) the `break` of line 165 is in force: the loop also ends right
\* after a dialog that matched
InputChatScanEnd_break(c) ==
    /\ pc[c] = "iter_dialogs"
    /\ \/ pos[c] = Len(dialogs[c])
       \/ pos[c] > 0 /\ dialogs[c][pos[c]].id = get_peer_id(_chat_peer)
    /\ ReturnInputChat(c, _input_chat)
    /\ UNCHANGED <<eventVars, log, pre, dialogs, pos, chatSeen, builderVars>>

\* the iterator is exhausted: the loop ends and line 167 returns
InputChatScanEnd(c) ==
    /\ pc[c] = "iter_dialogs"
    /\ pos[c] = Len(dialogs[c])
    /\ ReturnInputChat(c, _input_chat)
    /\ UNCHANGED <<eventVars, log, pre, dialogs, pos, chatSeen, builderVars>>

\* `return self._chat` (line 193)
ReturnChat(c, value) ==
    /\ Finish(c, Returned("chat", value))
    /\ chatSeen' = IF chatSeen = "None" THEN value ELSE chatSeen

\* line 184, `not self.input_chat`: input_chat is an async property, so the
\* expression self.input_chat is its coroutine object.  It is not awaited:
\* the resolution does not run, and a coroutine object is true whatever
\* _input_chat holds.
not_input_chat(ic) == FALSE

\* utils.get_peer_id(self._chat_peer) at line 188
KeyOutcomes(peer) == IF peer = NoPeer THEN NonePeerOutcomes ELSE {"id"}

\* chat, up to its first await (lines 184-191)
ChatBegin(c) ==
    /\ pc[c] = "idle"
    /\ pre' = [pre EXCEPT ![c] = Snapshot]
    /\ IF not_input_chat(_input_chat)
       THEN /\ log' = [log EXCEPT ![c] = <<>>]
            /\ Finish(c, Returned("chat", "None"))
            /\ UNCHANGED <<_chat, chatSeen>>
       ELSE IF _chat # "None"
       THEN /\ log' = [log EXCEPT ![c] = <<>>]
            /\ ReturnChat(c, _chat)
            /\ UNCHANGED _chat
       ELSE \E o \in KeyOutcomes(_chat_peer) :
              IF o = "TypeError"
              THEN /\ log' = [log EXCEPT ![c] = <<>>]
                   /\ Finish(c, Raised("chat", "TypeError"))
                   /\ UNCHANGED <<_chat, chatSeen>>
              ELSE LET found == IF o = "miss" THEN "None"
                                ELSE entities_get(_entities, get_peer_id(_chat_peer))
                       lookup == Call("_entities.get", _chat_peer, None, "None")
                   IN  /\ _chat' = found
                       /\ IF found # "None"
                          THEN /\ log' = [log EXCEPT ![c] = <<lookup>>]
                               /\ ReturnChat(c, found)
                          ELSE /\ log' = [log EXCEPT ![c] =
                                    <<lookup, Call("get_entity", NoPeer, None, _input_chat)>>]
                               /\ pc' = [pc EXCEPT ![c] = "get_entity"]
                               /\ UNCHANGED <<ret, chatSeen>>
    /\ dialogs' = [dialogs EXCEPT ![c] = <<>>]
    /\ pos' = [pos EXCEPT ![c] = 0]
    /\ UNCHANGED <<_chat_peer, _message_id, _entities, _input_chat,
                   is_private, is_group, is_channel, broadcast, icSeen,
                   builderVars>>

\* get_entity answers with the entity (line 191), returned at 193
ChatEntity(c) ==
    /\ pc[c] = "get_entity"
    /\ \E e \in Entities :
          /\ _chat' = e
          /\ Logged(c, Answer("entity", "None", e))
          /\ ReturnChat(c, e)
    /\ UNCHANGED <<_chat_peer, _message_id, _entities, _input_chat,
                   is_private, is_group, is_channel, broadcast,
                   pre, dialogs, pos, icSeen, builderVars>>

\* get_entity raises: nothing catches it
ChatEntityFails(c) ==
    /\ pc[c] = "get_entity"
    /\ \E err \in ClientErrors :
          /\ Logged(c, Answer(err, "None", "None"))
          /\ Finish(c, Raised("chat", err))
    /\ UNCHANGED <<eventVars, pre, dialogs, pos, icSeen, chatSeen, builderVars>>

\* chat_id (lines 200-201): synchronous, no call on the client
ChatId(c) ==
    /\ pc[c] = "idle"
    /\ pre' = [pre EXCEPT ![c] = Snapshot]
    /\ log' = [log EXCEPT ![c] = <<>>]
    /\ Finish(c, ReturnedId("chat_id",
                  IF _chat_peer # NoPeer THEN Some(get_peer_id(_chat_peer)) ELSE None))
    /\ dialogs' = [dialogs EXCEPT ![c] = <<>>]
    /\ pos' = [pos EXCEPT ![c] = 0]
    /\ UNCHANGED <<eventVars, icSeen, chatSeen, builderVars>>

\* The steps of the property accesses of context c.
Access(c) ==
    \/ InputChatBegin(c)
    \/ InputChatDirect(c)
    \/ InputChatDirectFails(c)
    \/ InputChatMessage(c)
    \/ InputChatFallbackFails(c)
    \/ InputChatDialog(c)
    \/ InputChatScanEnd(c)
    \/ ChatBegin(c)
    \/ ChatEntity(c)
    \/ ChatEntityFails(c)
    \/ ChatId(c)

\* ------------------------------------------------------------ EventBuilder
\* A chat reference as given to the builder: an integer, a typed peer, or
\* anything else (a username, "me", an entity), which only the client can
\* resolve.
IntRef(n) == [t |-> "int", n |-> n, peer |-> NoPeer, name |-> ""]
PeerRef(p) == [t |-> "peer", n |-> 0, peer |-> p, name |-> ""]
OtherRef(s) == [t |-> "other", n |-> 0, peer |-> NoPeer, name |-> s]

IntVals == {0 - Span} \cup RawIds
Refs == {IntRef(n) : n \in IntVals}
        \cup {PeerRef(p) : p \in {q \in Peers : q.id = MaxRawId}}
        \cup {OtherRef(s) : s \in {"username", "me"}}

\* The value of self.chats: None, one bare reference, a list of references,
\* or the set of IDs that resolve stores.
NoChats == [t |-> "None", refs |-> <<>>, ids |-> {}]
OneChat(r) == [t |-> "one", refs |-> <<r>>, ids |-> {}]
ChatList(rs) == [t |-> "list", refs |-> rs, ids |-> {}]
IdSet(S) == [t |-> "set", refs |-> <<>>, ids |-> S]

ChatsConfigs ==
    {NoChats} \cup {OneChat(r) : r \in Refs}
    \cup {ChatList(rs) : rs \in UNION {[1..n -> Refs] : n \in 0..MaxRefs}}

\* The identity get_me answers with.
SelfUser == [kind |-> "PeerUser", id |-> MaxRawId]

\* What the client answers for one reference it is asked to resolve:
\* get_input_entity raises, or returns the input peer of some chat, or returns
\* InputPeerSelf, after which get_me raises or returns the own user.
Answers ==
    {[t |-> "raise", peer |-> NoPeer], [t |-> "self_raise", peer |-> NoPeer],
     [t |-> "self", peer |-> SelfUser]}
    \cup {[t |-> "peer", peer |-> p] : p \in {q \in Peers : q.id = MaxRawId}}

\* The positions of the references that are looked up through the client.
Lookups(ch) == {i \in 1..Len(ch.refs) : ch.refs[i].t = "other"}

\* (mutant) no `chat < 0` test: a negative integer is encoded like any other
Contribution_no_sign_test(ref, answer) ==
    IF ref.t = "int"
    THEN [ok |-> TRUE,
          ids |-> {get_peer_id([kind |-> "PeerUser", id |-> ref.n]),
                   get_peer_id([kind |-> "PeerChat", id |-> ref.n]),
                   get_peer_id([kind |-> "PeerChannel", id |-> ref.n])}]
    ELSE IF ref.t = "peer"
    THEN [ok |-> TRUE, ids |-> {get_peer_id(ref.peer)}]
    ELSE IF answer.t \in {"raise", "self_raise"}
    THEN [ok |-> FALSE, ids |-> {}]
    ELSE [ok |-> TRUE, ids |-> {get_peer_id(answer.peer)}]

\* (mutant) the basic-group encoding of a non-negative integer is left out
Contribution_no_chat(ref, answer) ==
    IF ref.t = "int"
    THEN IF ref.n < 0
         THEN [ok |-> TRUE, ids |-> {ref.n}]
         ELSE [ok |-> TRUE,
               ids |-> {get_peer_id([kind |-> "PeerUser", id |-> ref.n]),
                        get_peer_id([kind |-> "PeerChannel", id |-> ref.n])}]
    ELSE IF ref.t = "peer"
    THEN [ok |-> TRUE, ids |-> {get_peer_id(ref.peer)}]
    ELSE IF answer.t \in {"raise", "self_raise"}
    THEN [ok |-> FALSE, ids |-> {}]
    ELSE [ok |-> TRUE, ids |-> {get_peer_id(answer.peer)}]

\* lines 20-36: what one reference adds to the result; ok is FALSE when the
\* lookup raises
Contribution(ref, answer) ==
    IF ref.t = "int"
    THEN IF ref.n < 0
         THEN [ok |-> TRUE, ids |-> {ref.n}]
         ELSE [ok |-> TRUE,
               ids |-> {get_peer_id([kind |-> "PeerUser", id |-> ref.n]),
                        get_peer_id([kind |-> "PeerChat", id |-> ref.n]),
                        get_peer_id([kind |-> "PeerChannel", id |-> ref.n])}]
    ELSE IF ref.t = "peer"
    THEN [ok |-> TRUE, ids |-> {get_peer_id(ref.peer)}]
    ELSE IF answer.t \in {"raise", "self_raise"}
    THEN [ok |-> FALSE, ids |-> {}]
    ELSE [ok |-> TRUE, ids |-> {get_peer_id(answer.peer)}]

\* lines 18-38, the loop over a sequence of references: the set built so far
\* and whether a lookup raised (the loop then stops)
RECURSIVE IdsOfRefs(_, _, _, _)
IdsOfRefs(refs, answers, i, result) ==
    IF i > Len(refs) THEN [ok |-> TRUE, ids |-> result]
    ELSE LET c == Contribution(refs[i], IF refs[i].t = "other" THEN answers[i]
                                         ELSE [t |-> "none", peer |-> NoPeer])
         IN  IF ~c.ok THEN [ok |-> FALSE, ids |-> result]
             ELSE IdsOfRefs(refs, answers, i + 1, result \cup c.ids)

\* _into_id_set(client, chats) (lines 10-38): raised tells whether a lookup
\* raised, value is what is returned otherwise, partial the set built when
\* the lookup raised.  A set of IDs (a second resolve) is iterated like a
\* list; its members are integers, so no lookup is made.
_into_id_set(ch, answers) ==
    IF ch.t = "None"
    THEN [raised |-> FALSE, value |-> NoChats, partial |-> {}]
    ELSE IF ch.t = "set"
    THEN [raised |-> FALSE,
          value |-> IdSet(UNION {Contribution(IntRef(n), [t |-> "none", peer |-> NoPeer]).ids
                                   : n \in ch.ids}),
          partial |-> {}]
    ELSE LET r == IdsOfRefs(ch.refs, answers, 1, {})
         IN  [raised |-> ~r.ok, value |-> IdSet(r.ids), partial |-> r.ids]

\* (mutant) the set built so far is stored although a lookup raised
chats_after_raise_partial(ch, partial) == IdSet(partial)

\* What resolve leaves in self.chats when _into_id_set raises (line 67): the
\* assignment does not happen.
chats_after_raise(ch, partial) == ch

\* `id in self.chats` (line 76) for a set of IDs or a list of references: an
\* integer equals only an integer of the list.
contains(ch, id) ==
    IF ch.t = "set" THEN id \in ch.ids
    ELSE \E i \in 1..Len(ch.refs) : ch.refs[i].t = "int" /\ ch.refs[i].n = id

\* (mutant) `if inside != self.blacklist_chats: return None`
_filter_event_inverted(ch, blacklist, peer, o) ==
    IF ch.t # "None"
    THEN IF peer = NoPeer /\ o = "TypeError"
         THEN Raised("_filter_event", "TypeError")
         ELSE IF ch.t = "one"
         THEN Raised("_filter_event", "TypeError")
         ELSE LET inside == IF peer = NoPeer THEN FALSE
                            ELSE contains(ch, get_peer_id(peer))
              IN  IF inside # blacklist
                  THEN Returned("_filter_event", "None")
                  ELSE Returned("_filter_event", "event")
    ELSE Returned("_filter_event", "event")

\* (mutant) an event without a chat peer is dropped by any filter before the
\* membership test
_filter_event_peerless_dropped(ch, blacklist, peer, o) ==
    IF ch.t # "None"
    THEN IF peer = NoPeer
         THEN Returned("_filter_event", "None")
         ELSE IF ch.t = "one"
         THEN Raised("_filter_event", "TypeError")
         ELSE IF contains(ch, get_peer_id(peer)) = blacklist
         THEN Returned("_filter_event", "None")
         ELSE Returned("_filter_event", "event")
    ELSE Returned("_filter_event", "event")

\* (mutant) no `is not None` test: an absent chats is an empty collection
_filter_event_none_as_empty(ch, blacklist, peer, o) ==
    IF peer = NoPeer /\ o = "TypeError"
    THEN Raised("_filter_event", "TypeError")
    ELSE IF ch.t = "one"
    THEN Raised("_filter_event", "TypeError")
    ELSE LET inside == IF peer = NoPeer \/ ch.t = "None" THEN FALSE
                       ELSE contains(ch, get_peer_id(peer))
         IN  IF inside = blacklist
             THEN Returned("_filter_event", "None")
             ELSE Returned("_filter_event", "event")

\* _filter_event(event) (lines 75-81); o is the outcome of get_peer_id when
\* the event has no chat peer.  One bare reference (an integer, a string, a
\* TLObject) is no container: `in` raises TypeError.
_filter_event(ch, blacklist, peer, o) ==
    IF ch.t # "None"
    THEN IF peer = NoPeer /\ o = "TypeError"
         THEN Raised("_filter_event", "TypeError")
         ELSE IF ch.t = "one"
         THEN Raised("_filter_event", "TypeError")
         ELSE LET inside == IF peer = NoPeer THEN FALSE
                            ELSE contains(ch, get_peer_id(peer))
              IN  IF inside = blacklist
                  THEN Returned("_filter_event", "None")
                  ELSE Returned("_filter_event", "event")
    ELSE Returned("_filter_event", "event")

\* __init__(chats, blacklist_chats) (lines 56-59)
InitBuilder ==
    /\ chats \in ChatsConfigs
    /\ blacklist_chats \in BOOLEAN
    /\ _self_id = None
    /\ chats0 = chats
    /\ chatsResolved = FALSE
    /\ bret = NoRet
    /\ bpc = "idle"

\* resolve, line 67: _into_id_set with every lookup it awaits, then the
\* assignment to self.chats and the get_me call of line 68
ResolveChats ==
    /\ bpc = "idle"
    /\ \E answers \in [Lookups(chats) -> Answers] :
          LET r == _into_id_set(chats, answers)
          IN  IF r.raised
              THEN /\ chats' = chats_after_raise(chats, r.partial)
                   /\ bret' = Raised("resolve", "lookup")
                   /\ UNCHANGED <<chatsResolved, bpc>>
              ELSE /\ chats' = r.value
                   /\ chatsResolved' = TRUE
                   /\ bpc' = "get_me"
                   /\ bret' = NoRet
    /\ UNCHANGED <<_self_id, blacklist_chats, chats0, eventVars, accessVars>>

\* resolve, line 68: get_me answers and its user_id is stored
ResolveSelf ==
    /\ bpc = "get_me"
    /\ _self_id' = Some(SelfUser.id)
    /\ bret' = Returned("resolve", "None")
    /\ bpc' = "idle"
    /\ UNCHANGED <<chats, blacklist_chats, chats0, chatsResolved, eventVars, accessVars>>

\* resolve, line 68: get_me raises
ResolveSelfFails ==
    /\ bpc = "get_me"
    /\ bret' = Raised("resolve", "get_me")
    /\ bpc' = "idle"
    /\ UNCHANGED <<chats, blacklist_chats, _self_id, chats0, chatsResolved,
                   eventVars, accessVars>>

\* _filter_event on the event (synchronous)
FilterEvent ==
    /\ \E o \in NonePeerOutcomes :
          bret' = _filter_event(chats, blacklist_chats, _chat_peer, o)
    /\ UNCHANGED <<chats, blacklist_chats, _self_id, chats0, chatsResolved, bpc,
                   eventVars, accessVars>>

\* --------------------------------------------------------- specifications
\* The property accesses of one event, one access at a time; its builder
\* takes no part.
Init ==
    /\ InitEvent
    /\ chats = NoChats
    /\ blacklist_chats = FALSE
    /\ _self_id = None
    /\ chats0 = NoChats
    /\ chatsResolved = FALSE
    /\ bret = NoRet
    /\ bpc = "idle"

Next == Access(Main)

Spec == Init /\ [][Next]_vars

\* Two execution contexts read input_chat of the same event; each runs up to
\* an await of the property, where the other may run.  The raced event is
\* of a user or a basic group and has a message ID: for such an event line
\* 151 always takes the get_messages branch, so the steps of the dialog scan
\* cannot occur and are left out.
InputChatSteps(c) ==
    \/ InputChatBegin(c)
    \/ InputChatDirect(c)
    \/ InputChatDirectFails(c)
    \/ InputChatMessage(c)
    \/ InputChatFallbackFails(c)

InitRace ==
    /\ Init
    /\ _chat_peer # NoPeer /\ _chat_peer.kind # "PeerChannel"
    /\ _message_id # None
    /\ _entities = <<>>
    /\ ~broadcast

NextRace == \E c \in Ctx : InputChatSteps(c)

SpecRace == InitRace /\ [][NextRace]_vars

\* A builder and the events it filters: any chats configuration, resolve
\* and _filter_event in any order; the event's lazy properties take no part.
InitB ==
    /\ InitBuilder
    /\ InitEvent
    /\ _message_id = None
    /\ _entities = <<>>
    /\ broadcast = FALSE

NextB ==
    \/ ResolveChats
    \/ ResolveSelf
    \/ ResolveSelfFails
    \/ FilterEvent

SpecBuilder == InitB /\ [][NextB]_vars

\* ------------------------------------------------------------------ claims
\* The access of context c that is running or was last: its kind, and
\* whether its direct get_input_entity call was answered with error err.
InputChatAccess(c) ==
    \/ pc[c] \in {"get_input_entity", "get_messages", "iter_dialogs"}
    \/ pc[c] = "idle" /\ ret[c].op = "input_chat"
ChatAccess(c) ==
    \/ pc[c] = "get_entity"
    \/ pc[c] = "idle" /\ ret[c].op = "chat"
DirectFailed(c, err) ==
    /\ InputChatAccess(c)
    /\ Len(log[c]) >= 2
    /\ log[c][1].fn = "get_input_entity"
    /\ log[c][2].fn = err
\* The calls on the client among the entries of a log.
ClientCalls(l) == {i \in 1..Len(l) : l[i].fn \in ClientMethods}
Called(l, fn) == \E i \in 1..Len(l) : l[i].fn = fn

\* C1: for a builder whose chats have been resolved and an event that has a
\* chat peer, _filter_event returns the event when chats is None, and
\* otherwise returns the event iff (the peer's canonical ID is in chats)
\* differs from blacklist_chats, and None in every other case.
C1_FilterResolved ==
    (bret.op = "_filter_event" /\ chatsResolved /\ _chat_peer # NoPeer) =>
        bret = IF chats.t = "None"
               THEN Returned("_filter_event", "event")
               ELSE IF (get_peer_id(_chat_peer) \in chats.ids) # blacklist_chats
               THEN Returned("_filter_event", "event")
               ELSE Returned("_filter_event", "None")

\* C1 witness: a resolved blacklist lets an event of a chat outside it pass.
C1_Witness ==
    /\ bret = Returned("_filter_event", "event")
    /\ chatsResolved /\ chats.t = "set" /\ chats.ids # {}
    /\ blacklist_chats
    /\ _chat_peer # NoPeer /\ get_peer_id(_chat_peer) \notin chats.ids

\* C2: once an access to input_chat has returned a non-absent value, every
\* later access to input_chat returns that same value and makes no call on
\* the client, whatever accesses to chat and chat_id came in between.
C2_InputChatCached ==
    \A c \in Ctx :
        (InputChatAccess(c) /\ pre[c].icSeen # "None") =>
            /\ pc[c] = "idle"
            /\ ret[c] = Returned("input_chat", pre[c].icSeen)
            /\ log[c] = <<>>

\* C2 witness: a later input_chat access has ended, after chat had returned
\* an entity too.
C2_Witness ==
    /\ pc[Main] = "idle" /\ ret[Main].op = "input_chat"
    /\ pre[Main].icSeen # "None" /\ pre[Main].chatSeen # "None"

\* C3 (as claimed): once an access to chat has returned a non-absent entity,
\* every later access to chat returns that same entity and makes no call on
\* the client, whatever accesses to input_chat or chat_id came in between.
C3_ChatCached ==
    \A c \in Ctx :
        (ChatAccess(c) /\ pre[c].chatSeen # "None") =>
            /\ pc[c] = "idle"
            /\ ret[c] = Returned("chat", pre[c].chatSeen)
            /\ ClientCalls(log[c]) = {}

\* C4: input_chat on an event whose peer is no channel and whose message ID
\* is set, when get_input_entity raises the not-found error: the next call is
\* get_messages for that message ID, iter_dialogs is not called in that
\* access, and the message's chat and input chat become the cached ones.
C4_MessageFallback ==
    \A c \in Ctx :
        (DirectFailed(c, "ValueError")
            /\ _chat_peer.kind # "PeerChannel" /\ _message_id # None) =>
            /\ Len(log[c]) >= 3
            /\ log[c][3] = Call("get_messages", NoPeer, _message_id, "None")
            /\ ~Called(log[c], "iter_dialogs")
            /\ (Len(log[c]) >= 4 /\ log[c][4].fn = "message") =>
                   /\ pc[c] = "idle"
                   /\ _chat = log[c][4].chat
                   /\ _input_chat = log[c][4].ic
                   /\ ret[c] = Returned("input_chat", log[c][4].ic)

\* C4 witness: the message fetched for message ID 0 supplied both fields.
C4_Witness ==
    /\ DirectFailed(Main, "ValueError")
    /\ _message_id = Some(0) /\ _chat_peer.kind = "PeerChat"
    /\ Len(log[Main]) = 4 /\ log[Main][4].fn = "message"
    /\ _chat # "None" /\ _input_chat # "None"

\* C5: input_chat on an event whose peer is a channel (with or without a
\* message ID) or whose message ID is unset, when get_input_entity raises the
\* not-found error: the resolution goes on with iter_dialogs and get_messages
\* is not called.
C5_DialogFallback ==
    \A c \in Ctx :
        (DirectFailed(c, "ValueError")
            /\ (_chat_peer.kind = "PeerChannel" \/ _message_id = None)) =>
            /\ Len(log[c]) >= 3
            /\ log[c][3] = Call("iter_dialogs", NoPeer, None, "None")
            /\ ~Called(log[c], "get_messages")

\* C5 witness: a channel event with a message ID has been resolved by a scan.
C5_Witness ==
    /\ DirectFailed(Main, "ValueError")
    /\ _chat_peer.kind = "PeerChannel" /\ _message_id # None
    /\ pc[Main] = "idle" /\ ret[Main].out = "return" /\ ret[Main].val # "None"
    /\ pos[Main] = MaxDialogs

\* C6 (as claimed): when the input chat of the event is absent (nothing has
\* produced a value for it before or during the access), an access to chat
\* returns absent, raises no error, does not look into the entity table and
\* does not call get_entity.  Stated for an event that has a chat peer; an
\* event without one fares no better (ChatBegin).
C6_ChatAbsent ==
    \A c \in Ctx :
        (ChatAccess(c) /\ _chat_peer # NoPeer
            /\ pre[c].ic = "None" /\ _input_chat = "None") =>
            /\ pc[c] = "idle"
            /\ ret[c] = Returned("chat", "None")
            /\ ~Called(log[c], "_entities.get")
            /\ ~Called(log[c], "get_entity")

\* C7: when the get_input_entity call of input_chat raises an error other
\* than not-found, input_chat raises that error, calls neither get_messages
\* nor iter_dialogs, and leaves _input_chat and _chat as they were.
C7_OtherErrorPropagates ==
    \A c \in Ctx : \A err \in ClientErrors \ {"ValueError"} :
        DirectFailed(c, err) =>
            /\ pc[c] = "idle"
            /\ ret[c] = Raised("input_chat", err)
            /\ Len(log[c]) = 2
            /\ _input_chat = pre[c].ic
            /\ _chat = pre[c].chat

\* C7 witness: the error left an entity cached by an earlier chat access.
C7_Witness ==
    /\ DirectFailed(Main, "RPCError")
    /\ ret[Main] = Raised("input_chat", "RPCError")
    /\ _chat # "None"

\* C8: when a lookup of a chat reference raises during resolve, resolve
\* raises and the builder is as before: chats is the configuration it was
\* constructed with (no partly built set) and the self identity is unset.
C8_ResolveFailureAtomic ==
    bret = Raised("resolve", "lookup") =>
        /\ chats = chats0
        /\ _self_id = None
        /\ bpc = "idle"

\* C8 witness: the second reference failed after the first had been added.
C8_Witness ==
    /\ bret = Raised("resolve", "lookup")
    /\ chats.t = "list" /\ Len(chats.refs) = 2
    /\ chats.refs[1].t = "int" /\ chats.refs[2].t = "other"

\* C9 (as claimed): on a builder on which resolve has not completed,
\* _filter_event returns every event (here: every event that has a chat
\* peer) unchanged, whatever its chats and blacklist_chats are.
C9_UnresolvedNoFilter ==
    (bret.op = "_filter_event" /\ _self_id = None /\ _chat_peer # NoPeer) =>
        bret = Returned("_filter_event", "event")

\* C9 (amended): on a builder constructed with chats absent, on which resolve
\* has not completed, _filter_event returns every event unchanged, whatever
\* blacklist_chats is.
C9_UnresolvedAbsentChats ==
    (bret.op = "_filter_event" /\ _self_id = None /\ chats0.t = "None") =>
        bret = Returned("_filter_event", "event")

\* C9 witness: an unresolved blacklist builder without chats passed an event.
C9_Witness ==
    /\ bret = Returned("_filter_event", "event")
    /\ _self_id = None /\ ~chatsResolved /\ chats0.t = "None"
    /\ blacklist_chats /\ _chat_peer # NoPeer

C11_IdsOf(r) ==
    IF r.t = "peer" THEN {get_peer_id(r.peer)}
    ELSE IF r.n < 0 THEN {r.n}
    ELSE {get_peer_id([kind |-> k, id |-> r.n]) : k \in PeerKinds}

\* C11: a negative integer given as a chat reference adds just itself to the
\* set, and the set resolve stores is the union of what each reference adds:
\* [n] with n < 0 gives {n}, [n] with n >= 0 gives the 3 encodings of n.
\* (References the client has to look up are left out: what they add is the
\* client's answer.)
C11_ResolvedUnion ==
    [][(~chatsResolved /\ chatsResolved'
            /\ \A i \in 1..Len(chats.refs) : chats.refs[i].t # "other") =>
        /\ chats'.ids = UNION {C11_IdsOf(chats.refs[i]) : i \in 1..Len(chats.refs)}
        /\ \A n \in IntVals :
             chats.refs = <<IntRef(n)>> =>
                 IF n < 0 THEN chats'.ids = {n} ELSE Cardinality(chats'.ids) = 3
      ]_vars

\* C11 witness: a list of a negative and a non-negative integer has been
\* resolved to the negative one and the 3 encodings of the other.
C11_Witness ==
    /\ chatsResolved
    /\ chats0 = ChatList(<<IntRef(0 - Span), IntRef(MaxRawId)>>)
    /\ (0 - Span) \in chats.ids /\ Cardinality(chats.ids) = 4

\* C12: in every state, before and after any access, is_private says the
\* chat peer is a user peer, is_channel says it is a channel peer, and
\* is_group says it is a basic-group or channel peer and broadcast was false;
\* all three are false without a peer.  No step changes a flag.
C12_FlagsFixed ==
    /\ is_private = (_chat_peer # NoPeer /\ _chat_peer.kind = "PeerUser")
    /\ is_channel = (_chat_peer # NoPeer /\ _chat_peer.kind = "PeerChannel")
    /\ is_group = (/\ _chat_peer # NoPeer
                   /\ _chat_peer.kind \in {"PeerChat", "PeerChannel"}
                   /\ ~broadcast)
    /\ _chat_peer = NoPeer => ~is_private /\ ~is_group /\ ~is_channel

\* C12 witness: a broadcast channel event, after input_chat went through the
\* dialog scan and chat was read: a channel, not a group, not private.
C12_Witness ==
    /\ _chat_peer.kind = "PeerChannel" /\ broadcast
    /\ is_channel /\ ~is_group /\ ~is_private
    /\ pc[Main] = "idle" /\ ret[Main].op = "chat"
    /\ _input_chat # "None" /\ _chat # "None" /\ icSeen # "None"

\* An input_chat access of c has returned after a dialog scan.
ScanReturned(c) ==
    /\ pc[c] = "idle"
    /\ ret[c].op = "input_chat" /\ ret[c].out = "return"
    /\ Called(log[c], "iter_dialogs")
\* The positions of the scanned sequence whose dialog has the target's ID.
Matches(c) ==
    {i \in 1..Len(dialogs[c]) : dialogs[c][i].id = get_peer_id(_chat_peer)}
FirstMatch(c) == CHOOSE i \in Matches(c) : \A j \in Matches(c) : i <= j

\* C13 (as claimed): when the dialog scan of input_chat has met dialogs with
\* the target's ID, the chat and input chat cached when the access returns
\* are those of the first such dialog in iteration order.
C13_FirstMatchAdopted ==
    \A c \in Ctx :
        (ScanReturned(c) /\ Matches(c) # {}) =>
            /\ _chat = dialogs[c][FirstMatch(c)].entity
            /\ _input_chat = dialogs[c][FirstMatch(c)].input_entity

\* C14: an input_chat access that went into the dialog scan and returned has
\* consumed every dialog of the sequence, also those after a match.
C14_ScanExhausted ==
    \A c \in Ctx : ScanReturned(c) => pos[c] = Len(dialogs[c])

\* C14 witness: the first dialog matched and the scan still went through the
\* dialog after it before the access returned.
C14_Witness ==
    /\ ScanReturned(Main)
    /\ Len(dialogs[Main]) >= 2 /\ 1 \in Matches(Main)
    /\ pos[Main] = Len(dialogs[Main])
    /\ ret[Main].val # "None"

\* C15 (as claimed): on an event with a chat peer, every get_entity call of
\* chat is passed a resolved, non-absent input chat, also when chat is the
\* first property accessed.
C15_GetEntityResolved ==
    \A c \in Ctx : \A i \in 1..Len(log[c]) :
        (_chat_peer # NoPeer /\ log[c][i].fn = "get_entity") =>
            log[c][i].ic # "None"

\* The chat entity adopted by the access of c that has just ended: the chat
\* of the fetched message, or the entity of the last dialog that matched,
\* when that access was an input_chat access that returned a value.
LastMatch(c) == CHOOSE i \in Matches(c) : \A j \in Matches(c) : j <= i
Adopted(c) ==
    IF ~(pc[c] = "idle" /\ ret[c].op = "input_chat"
            /\ ret[c].out = "return" /\ ret[c].val # "None")
    THEN "None"
    ELSE IF Len(log[c]) >= 4 /\ log[c][4].fn = "message"
    THEN log[c][4].chat
    ELSE IF Called(log[c], "iter_dialogs") /\ Matches(c) # {}
    THEN dialogs[c][LastMatch(c)].entity
    ELSE "None"

\* C16: when an input_chat access has just been resolved by the message
\* fetch or by the dialog scan and that fallback supplied a chat entity, the
\* access to chat that follows returns that entity at once: no lookup in the
\* entity table, no get_entity call.
C16_AdoptedChatReturned ==
    [][\A c \in Ctx :
          (Adopted(c) # "None" /\ ChatAccess(c)') =>
              /\ pc'[c] = "idle"
              /\ ret'[c] = Returned("chat", Adopted(c))
              /\ log'[c] = <<>>
      ]_vars

\* C16 witness: chat has returned, with no call at all, an entity that was
\* cached before any chat access had returned one, hence one adopted by a
\* fallback of input_chat.
C16_Witness ==
    /\ pc[Main] = "idle" /\ log[Main] = <<>>
    /\ pre[Main].chat # "None" /\ pre[Main].ic # "None"
    /\ pre[Main].chatSeen = "None"
    /\ ret[Main] = Returned("chat", pre[Main].chat)

\* C17 (as claimed): resolve called again on a builder whose chats were
\* already resolved leaves the resolved set as the first call produced it,
\* whatever chats the builder was constructed with.
C17_ResolveIdempotent ==
    [][chatsResolved => chats' = chats]_vars

\* C18: nothing guards the first access.  While one context is suspended in
\* its get_input_entity call on the unresolved event, another context that
\* reads input_chat issues get_input_entity too; and each of two contexts
\* suspended there gets its answer assigned to _input_chat.
C18_NoGuard ==
    \A c \in Ctx : \A d \in Ctx \ {c} :
        /\ (pc[c] = "get_input_entity" /\ pc[d] = "idle" /\ _input_chat = "None") =>
               ENABLED (InputChatBegin(d) /\ pc'[d] = "get_input_entity")
        /\ (pc[c] = "get_input_entity" /\ pc[d] = "get_input_entity") =>
               \A ip \in InputPeers :
                   ENABLED (InputChatDirect(c) /\ _input_chat' = ip)

\* C18 witness: both contexts issued get_input_entity for the event and both
\* answers were assigned: the first context returned one input peer and the
\* field now holds the other.
C18_Witness ==
    /\ pc[Main] = "idle" /\ pc["other"] = "idle"
    /\ Len(log[Main]) = 2 /\ Len(log["other"]) = 2
    /\ log[Main][1].fn = "get_input_entity" /\ log["other"][1].fn = "get_input_entity"
    /\ log[Main][2].fn = "input_peer" /\ log["other"][2].fn = "input_peer"
    /\ ret[Main] = Returned("input_chat", "IP1")
    /\ ret["other"] = Returned("input_chat", "IP2")
    /\ _input_chat = "IP2"

\* _filter_event has just been applied to an event without a chat peer by a
\* builder whose chats were resolved to a set.
FilteredPeerless ==
    /\ bret.op = "_filter_event"
    /\ chatsResolved /\ chats.t = "set"
    /\ _chat_peer = NoPeer

\* C19 (as claimed): for an event without a chat peer and a builder whose
\* resolved chats is a set, _filter_event raises nothing and returns None,
\* in whitelist and in blacklist mode.
C19_PeerlessExcluded ==
    FilteredPeerless => bret = Returned("_filter_event", "None")

\* C19 (amended): no test excludes such an event.  get_peer_id is called on
\* the missing peer: either that call raises and _filter_event raises with
\* it, or the ID it yields is in no set, and then a whitelist drops the event
\* and a blacklist returns it.
C19_PeerlessMembership ==
    FilteredPeerless =>
        \/ bret = Raised("_filter_event", "TypeError")
        \/ bret = IF blacklist_chats
                  THEN Returned("_filter_event", "event")
                  ELSE Returned("_filter_event", "None")

\* C19 witness: a resolved, non-empty blacklist returned an event that has
\* no chat peer.
C19_Witness ==
    /\ FilteredPeerless
    /\ blacklist_chats /\ chats.ids # {}
    /\ bret = Returned("_filter_event", "event")

\* The access of c that has just ended was an input_chat access on an event
\* with a chat peer and returned absent.
EndedAbsent(c) ==
    /\ pc[c] = "idle"
    /\ ret[c] = Returned("input_chat", "None")
    /\ _chat_peer # NoPeer

\* C20: absence is not remembered.  After an input_chat access on an event
\* with a chat peer has returned absent, the next input_chat access starts
\* the resolution again with get_input_entity; an event without a chat peer
\* returns absent on every input_chat access without any call.
C20_AbsenceNotMemoized ==
    /\ [][\A c \in Ctx :
            (EndedAbsent(c) /\ InputChatAccess(c)') =>
                /\ pc'[c] = "get_input_entity"
                /\ log'[c] = <<Call("get_input_entity", _chat_peer, None, "None")>>
         ]_vars
    /\ [](\A c \in Ctx :
            (_chat_peer = NoPeer /\ InputChatAccess(c)) =>
                /\ pc[c] = "idle"
                /\ ret[c] = Returned("input_chat", "None")
                /\ log[c] = <<>>)

\* C20 witness: the access before this one returned absent (its outcome is
\* still recorded) and this one is suspended in get_input_entity again.
C20_Witness ==
    /\ pc[Main] = "get_input_entity"
    /\ ret[Main] = Returned("input_chat", "None")
    /\ _chat_peer # NoPeer /\ _input_chat = "None"
    /\ log[Main] = <<Call("get_input_entity", _chat_peer, None, "None")>>

====
